---- MODULE Spec2Model ----
(***************************************************************************)
(* Model of src/main.cpp: the electric-device hierarchy, its factories,    *)
(* the DeviceManager registry, the shared logger and the entry point.      *)
(*                                                                         *)
(* Abstractions:                                                           *)
(*  - double powers are integers (the claims only need sign, zero and sum);*)
(*  - a std::string built by GetInfo() is the pair <<variant, rated power>>*)
(*    (name, brand, capacity, voltage and rpm are fixed per variant here); *)
(*  - the log prefixes are ASCII tags for the Cyrillic literals;           *)
(*  - every device carries an identity `id` (its address in the C++        *)
(*    program) and every log line remembers whose GetInfo() it holds.      *)
(***************************************************************************)
EXTENDS Integers, Sequences, FiniteSets, TLC

VARIABLES
    devices,   \* DeviceManager::_devices, in vector order
    log,       \* every message the shared ILogger has received, in order
    held,      \* the device a caller's unique_ptr owns, not yet handed over
    nextId,    \* identity given to the next constructed device
    lastOp,    \* the operation that completed last
    ret,       \* what that operation returned (NoValue for void)
    pc,        \* position in main(), or "caller" for an arbitrary caller
    tpc,       \* position inside DeviceManager::TurnOnAll ("idle" outside)
    idx,       \* TurnOnAll: index of the element the range-for is at
    entry      \* TurnOnAll: _devices and the log as they were at entry

vars == <<devices, log, held, nextId, lastOp, ret, pc, tpc, idx, entry>>

----------------------------------------------------------------------------
(* Bounds of the model *)

MaxDevices == 2
MaxLog == 6

(* Program constants *)

FridgePower == 150
DrillPower == 800

(* Rated powers given to the public constructors directly, beside the      *)
(* factories' ones: the constructors take any double.                      *)
OtherPowers == {-40, 0}

Kinds == {"Refrigerator", "Drill"}

AddedPrefix == "Added"          \* "Добавлено устройство: "
TurnedOnPrefix == "TurnedOn"    \* "Включено: "
TotalPrefix == "Total"          \* "Общая мощность потребления: "

NoValue == "void"
NoEntry == [devices |-> <<>>, log |-> <<>>]

----------------------------------------------------------------------------
(* AbstractElectricDevice and its variants *)

\* Faulty variant: the constructor initialises _isOn(true).
NewDeviceStartsOn(id, kind, power) ==
    [id |-> id, kind |-> kind, power |-> power, isOn |-> TRUE]

\* The constructor chain: _name/_power set, _isOn(false).
NewDevice(id, kind, power) ==
    [id |-> id, kind |-> kind, power |-> power, isOn |-> FALSE]

\* Faulty variant: TurnOn() toggles the flag instead of setting it.
TurnOnToggles(d) == [d EXCEPT !.isOn = ~d.isOn]

TurnOn(d) == [d EXCEPT !.isOn = TRUE]

TurnOff(d) == [d EXCEPT !.isOn = FALSE]

\* Faulty variant: GetPower() ignores the on/off state.
GetPowerIgnoresState(d) == d.power

GetPower(d) == IF d.isOn THEN d.power ELSE 0

\* Refrigerator::GetInfo / Drill::GetInfo: variant tag and rated _power
\* (never the on/off state).
GetInfo(d) == <<d.kind, d.power>>

RefrigeratorFactoryCreate(id) == NewDevice(id, "Refrigerator", FridgePower)

DrillFactoryCreate(id) == NewDevice(id, "Drill", DrillPower)

----------------------------------------------------------------------------
(* DeviceManager *)

\* One message as ILogger::Log receives it from the manager.
LogLine(prefix, d) == [prefix |-> prefix, info |-> GetInfo(d), dev |-> d.id]

\* Faulty variant: AddDevice inserts at the front of the vector.
AddDeviceAtFront(devs, lg, d) ==
    [devices |-> <<d>> \o devs,
     log     |-> Append(lg, LogLine(AddedPrefix, d))]

\* Faulty variant: AddDevice stores the device without logging.
AddDeviceSilent(devs, lg, d) ==
    [devices |-> Append(devs, d), log |-> lg]

\* Faulty variant: AddDevice switches the new device on.
AddDeviceTurnsOn(devs, lg, d) ==
    [devices |-> Append(devs, TurnOn(d)),
     log     |-> Append(lg, LogLine(AddedPrefix, d))]

\* AddDevice: log first, then push_back.
AddDeviceOp(devs, lg, d) ==
    [devices |-> Append(devs, d),
     log     |-> Append(lg, LogLine(AddedPrefix, d))]

\* Faulty variant: the loop body switches every device on, not only the i-th.
LoopTurnOnEvery(devs, i) == [j \in DOMAIN devs |-> TurnOn(devs[j])]

\* TurnOnAll, line 174: device->TurnOn() on the i-th element.
LoopTurnOn(devs, i) == [devs EXCEPT ![i] = TurnOn(devs[i])]

\* Faulty variant: the loop body logs nothing.
LoopLogNothing(devs, lg, i) == lg

\* TurnOnAll, line 175: _logger->Log("Включено: " + device->GetInfo()).
LoopLog(devs, lg, i) == Append(lg, LogLine(TurnedOnPrefix, devs[i]))

\* One iteration of the range-for.
LoopBody(st, i) ==
    LET on == LoopTurnOn(st.devices, i)
    IN  [devices |-> on, log |-> LoopLog(on, st.log, i)]

RECURSIVE TurnOnAllFrom(_, _)
TurnOnAllFrom(st, i) ==
    IF i > Len(st.devices) THEN st ELSE TurnOnAllFrom(LoopBody(st, i), i + 1)

TurnOnAllOp(devs, lg) == TurnOnAllFrom([devices |-> devs, log |-> lg], 1)

\* Faulty variant: the accumulation subtracts.
RECURSIVE TotalLoopSubtracts(_, _, _)
TotalLoopSubtracts(devs, i, total) ==
    IF i > Len(devs) THEN total
    ELSE TotalLoopSubtracts(devs, i + 1, total - GetPower(devs[i]))

\* GetTotalPower: total = 0; for each device, total += device->GetPower().
RECURSIVE TotalLoop(_, _, _)
TotalLoop(devs, i, total) ==
    IF i > Len(devs) THEN total
    ELSE TotalLoop(devs, i + 1, total + GetPower(devs[i]))

\* Faulty variant: the loop skips the first element.
GetTotalPowerSkipsFirst(devs) == TotalLoop(devs, 2, 0)

GetTotalPowerOp(devs) == TotalLoop(devs, 1, 0)

\* ConsoleUI::ShowTotalPower's message to the logger.
TotalLine(total) == [prefix |-> TotalPrefix, info |-> <<"W", total>>, dev |-> 0]

----------------------------------------------------------------------------
(* Initial states: a fresh manager with an empty vector and a logger that  *)
(* has received nothing; the caller is main() or an arbitrary caller.      *)

InitCommon ==
    /\ devices = <<>>
    /\ log = <<>>
    /\ held = {}
    /\ nextId = 1
    /\ lastOp = "construct"
    /\ ret = NoValue
    /\ tpc = "idle"
    /\ idx = 0
    /\ entry = NoEntry

Init == InitCommon /\ pc \in {"L235", "caller"}

InitLoop == InitCommon /\ pc = "caller"

Idle == pc = "caller" /\ tpc = "idle"

LoopVarsUnchanged == UNCHANGED <<tpc, idx, entry>>

----------------------------------------------------------------------------
(* Operations an arbitrary caller may invoke *)

\* fridgeFactory.Create() kept in a caller's unique_ptr.
CreateRefrigerator ==
    /\ Idle
    /\ held = {}
    /\ Len(devices) < MaxDevices
    /\ held' = held \cup {RefrigeratorFactoryCreate(nextId)}
    /\ nextId' = nextId + 1
    /\ lastOp' = "Create"
    /\ ret' = NoValue
    /\ UNCHANGED <<devices, log, pc>>
    /\ LoopVarsUnchanged

CreateDrill ==
    /\ Idle
    /\ held = {}
    /\ Len(devices) < MaxDevices
    /\ held' = held \cup {DrillFactoryCreate(nextId)}
    /\ nextId' = nextId + 1
    /\ lastOp' = "Create"
    /\ ret' = NoValue
    /\ UNCHANGED <<devices, log, pc>>
    /\ LoopVarsUnchanged

\* The public constructors called directly, with any rated power.
Construct ==
    /\ Idle
    /\ held = {}
    /\ Len(devices) < MaxDevices
    /\ \E kind \in Kinds, power \in OtherPowers :
          held' = held \cup {NewDevice(nextId, kind, power)}
    /\ nextId' = nextId + 1
    /\ lastOp' = "Create"
    /\ ret' = NoValue
    /\ UNCHANGED <<devices, log, pc>>
    /\ LoopVarsUnchanged

\* TurnOn()/TurnOff() on a device the caller still owns.
HeldTurnOn ==
    /\ Idle
    /\ \E d \in held : held' = (held \ {d}) \cup {TurnOn(d)}
    /\ lastOp' = "TurnOn"
    /\ ret' = NoValue
    /\ UNCHANGED <<devices, log, nextId, pc>>
    /\ LoopVarsUnchanged

HeldTurnOff ==
    /\ Idle
    /\ \E d \in held : held' = (held \ {d}) \cup {TurnOff(d)}
    /\ lastOp' = "TurnOff"
    /\ ret' = NoValue
    /\ UNCHANGED <<devices, log, nextId, pc>>
    /\ LoopVarsUnchanged

\* TurnOn()/TurnOff() through an element of GetDevices(): the view is a
\* const vector of unique_ptr, whose pointees are not const.
ViewTurnOn ==
    /\ Idle
    /\ \E i \in 1..Len(devices) :
          devices' = [devices EXCEPT ![i] = TurnOn(devices[i])]
    /\ lastOp' = "TurnOn"
    /\ ret' = NoValue
    /\ UNCHANGED <<log, held, nextId, pc>>
    /\ LoopVarsUnchanged

ViewTurnOff ==
    /\ Idle
    /\ \E i \in 1..Len(devices) :
          devices' = [devices EXCEPT ![i] = TurnOff(devices[i])]
    /\ lastOp' = "TurnOff"
    /\ ret' = NoValue
    /\ UNCHANGED <<log, held, nextId, pc>>
    /\ LoopVarsUnchanged

\* manager.AddDevice(std::move(d)) for a held device d.
AddDevice ==
    /\ Idle
    /\ Len(log) < MaxLog
    /\ \E d \in held :
          LET r == AddDeviceOp(devices, log, d)
          IN  /\ devices' = r.devices
              /\ log' = r.log
              /\ held' = held \ {d}
    /\ lastOp' = "AddDevice"
    /\ ret' = NoValue
    /\ UNCHANGED <<nextId, pc>>
    /\ LoopVarsUnchanged

\* manager.TurnOnAll(), the whole call.
TurnOnAll ==
    /\ Idle
    /\ Len(log) + Len(devices) <= MaxLog
    /\ LET r == TurnOnAllOp(devices, log)
       IN  /\ devices' = r.devices
           /\ log' = r.log
    /\ lastOp' = "TurnOnAll"
    /\ ret' = NoValue
    /\ UNCHANGED <<held, nextId, pc>>
    /\ LoopVarsUnchanged

\* manager.GetTotalPower().
GetTotalPower ==
    /\ Idle
    /\ lastOp' = "GetTotalPower"
    /\ ret' = GetTotalPowerOp(devices)
    /\ UNCHANGED <<devices, log, held, nextId, pc>>
    /\ LoopVarsUnchanged

----------------------------------------------------------------------------
(* main(), one action per statement that touches the manager *)

MainAddRefrigerator ==
    /\ pc = "L235"
    /\ LET r == AddDeviceOp(devices, log, RefrigeratorFactoryCreate(nextId))
       IN  /\ devices' = r.devices
           /\ log' = r.log
    /\ nextId' = nextId + 1
    /\ lastOp' = "AddDevice"
    /\ ret' = NoValue
    /\ pc' = "L236"
    /\ UNCHANGED held
    /\ LoopVarsUnchanged

MainAddDrill ==
    /\ pc = "L236"
    /\ LET r == AddDeviceOp(devices, log, DrillFactoryCreate(nextId))
       IN  /\ devices' = r.devices
           /\ log' = r.log
    /\ nextId' = nextId + 1
    /\ lastOp' = "AddDevice"
    /\ ret' = NoValue
    /\ pc' = "L239"
    /\ UNCHANGED held
    /\ LoopVarsUnchanged

MainTurnOnAll ==
    /\ pc = "L239"
    /\ LET r == TurnOnAllOp(devices, log)
       IN  /\ devices' = r.devices
           /\ log' = r.log
    /\ lastOp' = "TurnOnAll"
    /\ ret' = NoValue
    /\ pc' = "L245"
    /\ UNCHANGED <<held, nextId>>
    /\ LoopVarsUnchanged

\* ui.ShowDevices(): reads GetDevices() and prints; no state is touched.
MainShowDevices ==
    /\ pc = "L245"
    /\ lastOp' = "GetDevices"
    /\ ret' = NoValue
    /\ pc' = "L246"
    /\ UNCHANGED <<devices, log, held, nextId>>
    /\ LoopVarsUnchanged

\* ui.ShowTotalPower(): GetTotalPower(), print, then log the summary.
MainShowTotalPower ==
    /\ pc = "L246"
    /\ LET total == GetTotalPowerOp(devices)
       IN  /\ ret' = total
           /\ log' = Append(log, TotalLine(total))
    /\ lastOp' = "GetTotalPower"
    /\ pc' = "L248"
    /\ UNCHANGED <<devices, held, nextId>>
    /\ LoopVarsUnchanged

Main ==
    \/ MainAddRefrigerator
    \/ MainAddDrill
    \/ MainTurnOnAll
    \/ MainShowDevices
    \/ MainShowTotalPower

----------------------------------------------------------------------------
(* TurnOnAll statement by statement *)

TurnOnAllEnter ==
    /\ Idle
    /\ Len(log) + Len(devices) <= MaxLog
    /\ tpc' = "for"
    /\ idx' = 1
    /\ entry' = [devices |-> devices, log |-> log]
    /\ UNCHANGED <<devices, log, held, nextId, lastOp, ret, pc>>

TurnOnAllTurnOn ==
    /\ tpc = "for"
    /\ idx <= Len(devices)
    /\ devices' = LoopTurnOn(devices, idx)
    /\ tpc' = "L175"
    /\ UNCHANGED <<log, held, nextId, lastOp, ret, pc, idx, entry>>

TurnOnAllLog ==
    /\ tpc = "L175"
    /\ log' = LoopLog(devices, log, idx)
    /\ idx' = idx + 1
    /\ tpc' = "for"
    /\ UNCHANGED <<devices, held, nextId, lastOp, ret, pc, entry>>

TurnOnAllExit ==
    /\ tpc = "for"
    /\ idx > Len(devices)
    /\ tpc' = "idle"
    /\ idx' = 0
    /\ entry' = NoEntry
    /\ lastOp' = "TurnOnAll"
    /\ ret' = NoValue
    /\ UNCHANGED <<devices, log, held, nextId, pc>>

----------------------------------------------------------------------------
(* Specifications *)

Caller ==
    \/ CreateRefrigerator
    \/ CreateDrill
    \/ Construct
    \/ HeldTurnOn
    \/ HeldTurnOff
    \/ ViewTurnOn
    \/ ViewTurnOff
    \/ AddDevice
    \/ GetTotalPower

Next == Main \/ Caller \/ TurnOnAll

Spec == Init /\ [][Next]_vars

NextLoop ==
    \/ Caller
    \/ TurnOnAllEnter
    \/ TurnOnAllTurnOn
    \/ TurnOnAllLog
    \/ TurnOnAllExit

SpecLoop == InitLoop /\ [][NextLoop]_vars

----------------------------------------------------------------------------
(* Vocabulary of the properties *)

Range(seq) == {seq[i] : i \in 1..Len(seq)}

\* Every device that exists: the registry's and the one a caller holds.
AllDevices == Range(devices) \cup held

Ids(devs) == [i \in 1..Len(devs) |-> devs[i].id]

\* The sum of GetPower() over a set of positions, without the loop's order.
RECURSIVE SumOver(_, _)
SumOver(devs, S) ==
    IF S = {} THEN 0
    ELSE LET i == CHOOSE j \in S : TRUE
         IN  GetPower(devs[i]) + SumOver(devs, S \ {i})

SumOfGetPower(devs) == SumOver(devs, 1..Len(devs))

RECURSIVE AddedIds(_)
AddedIds(lg) ==
    IF lg = <<>> THEN <<>>
    ELSE LET rest == AddedIds(SubSeq(lg, 1, Len(lg) - 1))
             last == lg[Len(lg)]
         IN  IF last.prefix = AddedPrefix THEN Append(rest, last.dev) ELSE rest

AllOn(devs) == \A i \in 1..Len(devs) : devs[i].isOn

TurnedOnLines(lg) == {i \in 1..Len(lg) : lg[i].prefix = TurnedOnPrefix}

----------------------------------------------------------------------------
\* C1 (as stated): for every device, after any TurnOn/TurnOff calls,
\* GetPower() equals the rated power if and only if the device is on, and is
\* zero otherwise, whatever the rated power.
C1_PowerIffOn ==
    \A d \in AllDevices :
        /\ (GetPower(d) = d.power) <=> d.isOn
        /\ ~d.isOn => GetPower(d) = 0

\* C1 (amended): GetPower() is the rated power when the device is on and zero
\* when it is off; the "only if" holds for every non-zero rated power (a
\* device rated 0 returns its rated power, 0, while off as well).
C1_PowerByState ==
    \A d \in AllDevices :
        /\ d.isOn => GetPower(d) = d.power
        /\ ~d.isOn => GetPower(d) = 0
        /\ d.power # 0 => ((GetPower(d) = d.power) <=> d.isOn)

\* C1 witness: after a TurnOff, one device is on and another, of non-zero
\* rated power, is off.
C1_Witness ==
    /\ lastOp = "TurnOff"
    /\ \E d, e \in AllDevices :
          /\ d.isOn /\ d.power # 0 /\ GetPower(d) = d.power
          /\ ~e.isOn /\ e.power # 0 /\ GetPower(e) = 0

\* C2: GetTotalPower() returns the sum of GetPower() over the devices now in
\* the registry (zero for an empty one), in every reachable state, and the
\* call changes neither the devices, nor their states, nor the log.
C2_TotalIsSum ==
    [][/\ GetTotalPowerOp(devices) = SumOfGetPower(devices)
       /\ GetTotalPowerOp(devices') = SumOfGetPower(devices')
       /\ lastOp' = "GetTotalPower" =>
             /\ ret' = SumOfGetPower(devices')
             /\ devices' = <<>> => ret' = 0
             /\ devices' = devices
             /\ held' = held
             /\ pc' = "caller" => log' = log]_vars

\* C2 witness: GetTotalPower() has returned the power of the one device that
\* is on in a registry of two.
C2_Witness ==
    /\ lastOp = "GetTotalPower"
    /\ pc = "caller"
    /\ Len(devices) = 2
    /\ devices[1].isOn /\ ~devices[2].isOn
    /\ devices[1].power # 0 /\ devices[2].power # 0
    /\ ret = devices[1].power

\* C3: GetDevices() holds the devices in the order of the AddDevice calls
\* (the order of the "added" lines of the log), one per call, none removed,
\* reordered or merged; a fresh registry holds none.
C3_InsertionOrder ==
    /\ Ids(devices) = AddedIds(log)
    /\ \A i, j \in 1..Len(devices) : devices[i].id = devices[j].id => i = j
    /\ lastOp = "construct" => Len(devices) = 0

\* C3 witness: two devices of equal attributes were added with a TurnOnAll in
\* between, and both are there.
C3_Witness ==
    /\ Len(devices) = 2
    /\ GetInfo(devices[1]) = GetInfo(devices[2])
    /\ Len(log) >= 3
    /\ log[2].prefix = TurnedOnPrefix
    /\ log[3].prefix = AddedPrefix

\* C4: every "turned on" line of the log is preceded by the "added" line of
\* the same device, and no "added" line of a device follows a "turned on"
\* line of it.
C4_AddedBeforeTurnedOn ==
    \A j \in TurnedOnLines(log) :
        /\ \E i \in 1..(j - 1) :
              log[i].prefix = AddedPrefix /\ log[i].dev = log[j].dev
        /\ \A i \in j..Len(log) :
              ~(log[i].prefix = AddedPrefix /\ log[i].dev = log[j].dev)

\* C4 witness: a device was added after another had been logged as turned
\* on, and then logged as turned on itself.
C4_Witness ==
    /\ Len(log) >= 5
    /\ log[2].prefix = TurnedOnPrefix
    /\ log[3].prefix = AddedPrefix
    /\ log[5].prefix = TurnedOnPrefix
    /\ log[5].dev = log[3].dev

\* C5: a TurnOnAll() right after a TurnOnAll() changes no device, leaves
\* every device on and GetTotalPower() as it was, and only adds one log line
\* per device; any TurnOnAll() leaves every device on.
C5_TurnOnAllIdempotent ==
    [][/\ lastOp' = "TurnOnAll" => AllOn(devices')
       /\ (lastOp = "TurnOnAll" /\ lastOp' = "TurnOnAll") =>
             /\ devices' = devices
             /\ GetTotalPowerOp(devices') = GetTotalPowerOp(devices)
             /\ Len(log') = Len(log) + Len(devices)]_vars

\* C5 witness: TurnOnAll() has run twice in a row on a registry of two.
C5_Witness ==
    /\ lastOp = "TurnOnAll"
    /\ Len(devices) = 2
    /\ Len(log) >= 4
    /\ \A i \in (Len(log) - 3)..Len(log) : log[i].prefix = TurnedOnPrefix

\* C6 (as stated): every AddDevice call and every TurnOnAll call appends at
\* least one message to the log, the empty registry included.
C6_EveryCallLogs ==
    [][lastOp' \in {"AddDevice", "TurnOnAll"} => Len(log') > Len(log)]_vars

\* C6 (amended): every AddDevice call appends exactly one message, and every
\* TurnOnAll call appends exactly one message per device of the registry:
\* at least one for a non-empty registry, none for an empty one.
C6_LinesPerCall ==
    [][/\ lastOp' = "AddDevice" =>
             /\ Len(log') = Len(log) + 1
             /\ SubSeq(log', 1, Len(log)) = log
       /\ lastOp' = "TurnOnAll" =>
             /\ Len(log') = Len(log) + Len(devices)
             /\ SubSeq(log', 1, Len(log)) = log
             /\ Len(devices) > 0 <=> Len(log') > Len(log)]_vars

\* C6 witness: TurnOnAll() has run on the empty registry, and nothing was
\* logged.
C6_Witness ==
    /\ lastOp = "TurnOnAll"
    /\ devices = <<>>
    /\ log = <<>>

\* C7 (as stated): GetPower() is never negative for any device that can be
\* constructed, and so GetTotalPower() is never negative.
C7_NeverNegative ==
    /\ \A d \in AllDevices : GetPower(d) >= 0
    /\ GetTotalPowerOp(devices) >= 0

\* C7 (amended): GetPower() is never negative for a device whose rated power
\* is not negative (every factory-made device), and GetTotalPower() is never
\* negative for a registry of such devices; a device constructed with a
\* negative rated power has that negative GetPower() while it is on.
C7_NonNegativeWhenRatedSo ==
    /\ \A d \in AllDevices :
          /\ d.power >= 0 => GetPower(d) >= 0
          /\ (d.power < 0 /\ d.isOn) => GetPower(d) < 0
    /\ (\A i \in 1..Len(devices) : devices[i].power >= 0) =>
          /\ GetTotalPowerOp(devices) >= 0
          /\ lastOp = "GetTotalPower" => ret >= 0

\* C7 witness: GetTotalPower() has returned a positive total for a registry
\* of devices of non-negative rated power, one of them off.
C7_Witness ==
    /\ lastOp = "GetTotalPower"
    /\ Len(devices) = 2
    /\ \A i \in 1..2 : devices[i].power >= 0
    /\ \E i \in 1..2 : ~devices[i].isOn
    /\ ret > 0

\* C8: in main(), GetTotalPower() is 0 until TurnOnAll() is called and 950
\* after it, and the registry holds the refrigerator (150) then the drill
\* (800).
C8_MainScenario ==
    /\ pc \in {"L235", "L236", "L239"} => GetTotalPowerOp(devices) = 0
    /\ pc = "L235" => devices = <<>>
    /\ pc = "L236" => Len(devices) = 1
    /\ pc \in {"L239", "L245", "L246", "L248"} =>
          /\ Len(devices) = 2
          /\ GetInfo(devices[1]) = <<"Refrigerator", 150>>
          /\ GetInfo(devices[2]) = <<"Drill", 800>>
    /\ pc \in {"L245", "L246", "L248"} => GetTotalPowerOp(devices) = 950
    /\ pc = "L248" => ret = 950

\* C8 witness: main() has reported the total after TurnOnAll().
C8_Witness ==
    /\ pc = "L248"
    /\ lastOp = "GetTotalPower"
    /\ ret = 950
    /\ log[Len(log)] = TotalLine(950)

\* C9: inside one TurnOnAll() call on n devices, when k lines have been
\* logged they are the "turned on" lines of devices 1..k in that order,
\* devices 1..k are on (and device k+1 too once line 174 has run for it, so a
\* device is on before its line is logged), the later devices are as they
\* were at entry, and the loop ends with k = n.
C9_LoopOrder ==
    tpc # "idle" =>
        LET n == Len(entry.devices)
            base == Len(entry.log)
            k == Len(log) - base
            on == IF tpc = "L175" THEN idx ELSE idx - 1
        IN  /\ Len(devices) = n
            /\ k = idx - 1
            /\ k <= n
            /\ SubSeq(log, 1, base) = entry.log
            /\ \A j \in 1..k :
                  /\ log[base + j] = LogLine(TurnedOnPrefix, entry.devices[j])
                  /\ devices[j].isOn
            /\ \A j \in 1..n :
                  devices[j] = IF j <= on THEN TurnOn(entry.devices[j])
                               ELSE entry.devices[j]
            /\ (tpc = "for" /\ idx > n) => k = n

\* C9 witness: the first line of a TurnOnAll() on two devices that were off
\* has been logged; the first is on, the second still off.
C9_Witness ==
    /\ tpc = "for"
    /\ idx = 2
    /\ Len(devices) = 2
    /\ ~entry.devices[1].isOn
    /\ devices[1].isOn
    /\ ~devices[2].isOn
    /\ log[Len(log)] = LogLine(TurnedOnPrefix, devices[1])

====
